---- MODULE Spec2Model ----
(***************************************************************************)
(* scan_sctp (src/SCTP/scan.py, lines 84-139): the bounded-concurrency,    *)
(* non-blocking connect scanner, as a state machine.                       *)
(*                                                                         *)
(* Time is counted in ticks.  Python statements take no time; time passes  *)
(* only while the loop is blocked in selector.select (line 118).  The     *)
(* code reads time.time(), the wall clock: wall = mono + skew, where mono  *)
(* is real elapsed time and skew is changed by adjustments of the system   *)
(* clock.                                                                  *)
(*                                                                         *)
(* A socket is named by the index of the task it was created for: every    *)
(* task pulled from the generator creates at most one socket object.       *)
(***************************************************************************)
EXTENDS Integers, Sequences, FiniteSets, TLC

\* ---------------------------------------------------------------- bounds
MaxIps == 2
MaxPorts == 2
MaxTargets == 4
MaxConcurrency == 2
MaxTimeout == 2
ClockJump == 2
MaxRespLen == 9

\* selector.select(timeout=0.1): the polling granularity, in ticks
PollGranularity == 1

VARIABLES
    ips,          \* argument: list of hosts
    ports,        \* argument: list of ports
    concurrency,  \* argument
    timeout,      \* argument, in ticks
    pc,           \* position of the loop
    tasks,        \* number of items the generator `tasks` has yielded
    in_flight,    \* dict: socket -> <<ip, port, start>>
    selector,     \* set of sockets registered with the selector
    results,      \* list of <<ip, port>>
    events,       \* ready sockets returned by select and not yet handled
    sweep,        \* rest of list(in_flight.items()) in the timeout loop
    now,          \* local `now`
    mono,         \* real elapsed time
    skew,         \* wall clock minus real time
    waited,       \* time the current select has been blocked (0 outside select)
    stepped,      \* the system clock has been adjusted during this scan
    created,      \* sockets created by socket.socket()
    closes,       \* socket -> number of close() calls
    wr,           \* socket -> "pending" | "connected" | "refused" | "closed"
    net,          \* open socket -> how its target answers the connect
    resolved,     \* history: socket -> what happened to its attempt, in order:
                  \*   "success" (reported writable, connected), "failure"
                  \*   (reported writable, connection error), "timeout" (swept)
    started,      \* history: in-flight socket -> real time of its admission
    failed,       \* history: task whose admission raised (0: none)
    admitted      \* history: the targets put in in_flight, in order

\* test_m3ua (connect.py)
VARIABLES
    step,         \* position in test_m3ua ("idle": not called)
    sock,         \* local `sock`: "unbound" | "open" | "closed"
    sent,         \* bytes handed to sctp_send
    response,     \* local `response`
    printed,      \* what has been printed, in order
    escaped,      \* the exception that left test_m3ua ("none": none)
    sock_closes   \* history: number of close() calls on the socket

m3ua == << step, sock, sent, response, printed, escaped, sock_closes >>

args == << ips, ports, concurrency, timeout >>
clock == << mono, skew, waited, stepped >>
scan == << args, pc, tasks, in_flight, selector, results, events, sweep, now,
           clock, created, closes, wr, net, resolved, started, failed, admitted >>
vars == << scan, m3ua >>

\* ------------------------------------------------------------- helpers
Ascending(n) == [i \in 1..n |-> i]
Descending(n) == [i \in 1..n |-> n + 1 - i]
PortRange(m) == [j \in 1..m |-> 2904 + j]

\* (mutant) the loops are nested the other way round
TaskList_PortMajor(hosts, prts) ==
    [n \in 1..(Len(hosts) * Len(prts)) |->
        << hosts[((n - 1) % Len(hosts)) + 1], prts[((n - 1) \div Len(hosts)) + 1] >>]

\* tasks = ((ip,port) for ip in ips for port in ports)
TaskList(hosts, prts) ==
    [n \in 1..(Len(hosts) * Len(prts)) |->
        << hosts[((n - 1) \div Len(prts)) + 1], prts[((n - 1) % Len(prts)) + 1] >>]

AllTasks == TaskList(ips, ports)
NumTasks == Len(AllTasks)
Socks == 1..NumTasks

\* time.time()
Wall == mono + skew

\* len(in_flight)
InFlightCount == Cardinality(DOMAIN in_flight)

Running == pc \in {"admit", "select", "ready", "sweep"}

\* how a target answers a connect: at once (accepting or refusing), after a
\* delay, or never
Answers == {"ok", "refused", "slow", "silent"}

\* sockets the selector reports for EVENT_WRITE
ReadySet == {s \in selector : wr[s] # "pending"}

\* (mutant) the entry is read but not removed
Without_Keep(d, s) == d

\* dict without key s: the dict after d.pop(s)
Without(d, s) == [k \in (DOMAIN d) \ {s} |-> d[k]]

\* the keys of a dict in insertion order; sockets are inserted in task order
RECURSIVE KeysInOrder(_, _)
KeysInOrder(S, n) ==
    IF n = 0 THEN << >>
    ELSE IF n \in S THEN Append(KeysInOrder(S, n - 1), n)
         ELSE KeysInOrder(S, n - 1)

\* list(in_flight.items())
Items(d) ==
    LET ks == KeysInOrder(DOMAIN d, NumTasks)
    IN  [i \in 1..Len(ks) |-> << ks[i], d[ks[i]] >>]

\* ---------------------------------------------------------------- Init
\* test_m3ua has not been called
M3uaIdle ==
    /\ step = "idle"
    /\ sock = "unbound"
    /\ sent = << >>
    /\ response = << >>
    /\ printed = << >>
    /\ escaped = "none"
    /\ sock_closes = 0

\* lines 85-89: the locals of scan_sctp before the loop
LoopStart ==
    /\ pc = "admit"
    /\ tasks = 0
    /\ in_flight = << >>
    /\ selector = {}
    /\ results = << >>
    /\ events = {}
    /\ sweep = << >>
    /\ now = 0
    /\ mono = 0
    /\ skew = 0
    /\ waited = 0
    /\ stepped = FALSE
    /\ created = {}
    /\ closes = [s \in Socks |-> 0]
    /\ wr = [s \in Socks |-> "pending"]
    /\ net = [s \in Socks |-> "none"]
    /\ resolved = [s \in Socks |-> << >>]
    /\ started = [s \in Socks |-> 0]
    /\ failed = 0
    /\ admitted = << >>

Init ==
    /\ \E n \in 0..MaxIps : ips \in {Ascending(n), Descending(n)}
    /\ \E m \in 0..MaxPorts : ports = PortRange(m)
    /\ Len(ips) * Len(ports) <= MaxTargets
    /\ concurrency \in (0 - 1)..MaxConcurrency
    /\ timeout \in 1..MaxTimeout
    /\ LoopStart
    /\ M3uaIdle

\* --------------------------------------------------- the code's tests
\* (mutant) <= for <
HasFreeSlot_OffByOne == InFlightCount <= concurrency

\* (mutant) one slot is never used
HasFreeSlot_Strict == InFlightCount < concurrency - 1

\* line 105: len(in_flight) < concurrency
HasFreeSlot == InFlightCount < concurrency

\* (mutant) next() yields the item it yielded before
NextTask_Again == IF tasks = 0 THEN 1 ELSE tasks

\* line 106: the index of the item next(tasks) yields
NextTask == tasks + 1

\* (mutant) an exhausted generator is replaced by a fresh one
AfterExhaustion_Restart == tasks - NumTasks

\* lines 106, 112-113: StopIteration is passed over and the generator stays
\* exhausted: the number of items it has yielded afterwards
AfterExhaustion == tasks

\* (mutant) the socket stays registered
Unregister_Skip(sel, s) == sel

\* lines 124, 134: the registered sockets after selector.unregister(s)
Unregister(sel, s) == sel \ {s}

\* line 115: not in_flight
NothingInFlight == DOMAIN in_flight = {}

\* line 125: sock.getsockopt(SOL_SOCKET, SO_ERROR)
SockError(s) == IF wr[s] = "connected" THEN 0 ELSE 111

\* (mutant) the error is not looked at
IsOpen_Any(err) == TRUE

\* line 126: err == 0
IsOpen(err) == err = 0

\* line 133: now - start >= timeout
Expired(start) == now - start >= timeout

\* line 132: list(in_flight.items()), taken when the ready loop has left d
SweepItems(d) == Items(d)

\* (mutant) the loop polls before it tests in_flight
AfterAdmission_PollFirst == "select"

\* (mutant) the loop is left as soon as the generator is exhausted
AfterAdmission_ProducerOnly == IF tasks = NumTasks THEN "done" ELSE "select"

\* lines 115-116, after the admission loop: if not in_flight: break
AfterAdmission == IF NothingInFlight THEN "done" ELSE "select"

\* ------------------------------------------------------------ admission
\* lines 105-111: one pass of the inner while loop
Admit ==
    /\ pc = "admit"
    /\ HasFreeSlot
    /\ tasks < NumTasks
    /\ LET s == NextTask IN
        /\ tasks' = s
        /\ created' = created \cup {s}
        /\ \E a \in Answers :
            /\ net' = [net EXCEPT ![s] = a]
            /\ wr' = [wr EXCEPT ![s] = CASE a = "ok" -> "connected"
                                          [] a = "refused" -> "refused"
                                          [] OTHER -> "pending"]
        /\ selector' = selector \cup {s}
        /\ in_flight' = [k \in (DOMAIN in_flight) \cup {s} |->
                            IF k = s THEN << AllTasks[s][1], AllTasks[s][2], Wall >>
                            ELSE in_flight[k]]
        /\ started' = [started EXCEPT ![s] = mono]
        /\ admitted' = Append(admitted, AllTasks[s])
    /\ UNCHANGED << args, m3ua, pc, results, events, sweep, now, clock, closes, resolved,
                    failed >>

\* lines 107-110: socket.socket(), connect_ex() or selector.register() raises
\* (OSError, OverflowError, ...); only StopIteration is caught at line 112, so
\* the exception leaves scan_sctp
AdmitRaise(stage) ==
    /\ pc = "admit"
    /\ HasFreeSlot
    /\ tasks < NumTasks
    /\ LET s == NextTask IN
        /\ tasks' = s
        /\ created' = IF stage = "socket" THEN created ELSE created \cup {s}
        /\ failed' = s
    /\ pc' = "raised"
    /\ UNCHANGED << args, m3ua, admitted, in_flight, selector, results, events, sweep, now, clock,
                    closes, wr, net, resolved, started >>

\* lines 106, 112-116: next(tasks) raises StopIteration, which ends the
\* admission loop; then the loop's exit test
AdmitStop ==
    /\ pc = "admit"
    /\ HasFreeSlot
    /\ tasks = NumTasks
    /\ tasks' = AfterExhaustion
    /\ pc' = AfterAdmission
    /\ UNCHANGED << args, m3ua, admitted, in_flight, selector, results, events, sweep, now,
                    clock, created, closes, wr, net, resolved, started, failed >>

\* lines 105, 115-116: the while condition is false, which ends the admission
\* loop; then the loop's exit test
AdmitFull ==
    /\ pc = "admit"
    /\ ~HasFreeSlot
    /\ pc' = AfterAdmission
    /\ UNCHANGED << args, m3ua, admitted, tasks, in_flight, selector, results, events, sweep, now,
                    clock, created, closes, wr, net, resolved, started, failed >>

\* ----------------------------------------------------------------- poll
\* lines 118-119: select returns at once with every ready socket
SelectReady ==
    /\ pc = "select"
    /\ ReadySet # {}
    /\ events' = ReadySet
    /\ now' = Wall
    /\ waited' = 0
    /\ pc' = "ready"
    /\ UNCHANGED << args, m3ua, admitted, tasks, in_flight, selector, results, sweep, mono, skew,
                    stepped, created, closes, wr, net, resolved, started, failed >>

\* line 118: nothing is ready: select blocks, time passes
SelectWait ==
    /\ pc = "select"
    /\ ReadySet = {}
    /\ waited < PollGranularity
    /\ mono' = mono + 1
    /\ waited' = waited + 1
    /\ UNCHANGED << args, m3ua, admitted, pc, tasks, in_flight, selector, results, events, sweep, now,
                    skew, stepped, created, closes, wr, net, resolved, started,
                    failed >>

\* lines 118-119, 121, 132: select(timeout=0.1) returns [] after the
\* granularity; the ready loop has nothing to do and the timeout loop starts
\* (in_flight is not empty here)
SelectTimeout ==
    /\ pc = "select"
    /\ ReadySet = {}
    /\ waited = PollGranularity
    /\ events' = {}
    /\ now' = Wall
    /\ waited' = 0
    /\ sweep' = SweepItems(in_flight)
    /\ pc' = "sweep"
    /\ UNCHANGED << args, m3ua, admitted, tasks, in_flight, selector, results, mono, skew,
                    stepped, created, closes, wr, net, resolved, started, failed >>

\* ------------------------------------------------------ ready handling
\* lines 121-129: one pass of `for key, _ in events`; the selector reports
\* the ready sockets in no particular order.  After the last pass
\* list(in_flight.items()) is taken (line 132); when it is empty the next
\* iteration of `while True` starts
HandleReady(s) ==
    /\ pc = "ready"
    /\ s \in events
    /\ events' = events \ {s}
    /\ IF s \notin DOMAIN in_flight
       THEN \* line 123: in_flight.pop(sock) raises KeyError
            /\ pc' = "raised"
            /\ UNCHANGED << in_flight, selector, results, closes, wr, net, resolved,
                            started, sweep >>
       ELSE IF s \notin selector \/ closes[s] > 0
       THEN \* line 124 / 125: unregister raises KeyError, getsockopt OSError
            /\ pc' = "raised"
            /\ in_flight' = Without(in_flight, s)
            /\ selector' = Unregister(selector, s)
            /\ UNCHANGED << results, closes, wr, net, resolved, started, sweep >>
       ELSE /\ in_flight' = Without(in_flight, s)
            /\ selector' = Unregister(selector, s)
            /\ results' = IF IsOpen(SockError(s))
                          THEN Append(results, << in_flight[s][1], in_flight[s][2] >>)
                          ELSE results
            /\ closes' = [closes EXCEPT ![s] = @ + 1]
            /\ resolved' = [resolved EXCEPT ![s] =
                              Append(@, IF wr[s] = "connected" THEN "success"
                                        ELSE "failure")]
            /\ wr' = [wr EXCEPT ![s] = "closed"]
            /\ net' = [net EXCEPT ![s] = "none"]
            /\ started' = [started EXCEPT ![s] = 0]
            /\ IF events' # {}
               THEN pc' = pc /\ sweep' = sweep
               ELSE \* line 132: the ready loop is over
                    /\ sweep' = SweepItems(in_flight')
                    /\ pc' = IF sweep' = << >> THEN "admit" ELSE "sweep"
    /\ UNCHANGED << args, m3ua, admitted, tasks, now, clock, created, failed >>

\* -------------------------------------------------------- timeout sweep
\* line 102, after the last pass of the timeout loop: next iteration
AfterPass(rest) == IF rest = << >> THEN "admit" ELSE "sweep"

\* lines 132-137: one pass of the timeout loop
SweepOne ==
    /\ pc = "sweep"
    /\ sweep # << >>
    /\ sweep' = Tail(sweep)
    /\ LET s == Head(sweep)[1]
           start == Head(sweep)[2][3]
       IN  IF ~Expired(start)
           THEN /\ pc' = AfterPass(sweep')
                /\ UNCHANGED << in_flight, selector, closes, wr, net, resolved,
                                started >>
           ELSE IF s \notin selector
           THEN \* line 134: unregister raises KeyError
                /\ pc' = "raised"
                /\ UNCHANGED << in_flight, selector, closes, wr, net, resolved,
                                started >>
           ELSE IF s \notin DOMAIN in_flight
           THEN \* line 136: in_flight.pop raises KeyError
                /\ pc' = "raised"
                /\ selector' = Unregister(selector, s)
                /\ closes' = [closes EXCEPT ![s] = @ + 1]
                /\ wr' = [wr EXCEPT ![s] = "closed"]
                /\ net' = [net EXCEPT ![s] = "none"]
                /\ UNCHANGED << in_flight, resolved, started >>
           ELSE /\ selector' = Unregister(selector, s)
                /\ closes' = [closes EXCEPT ![s] = @ + 1]
                /\ wr' = [wr EXCEPT ![s] = "closed"]
                /\ net' = [net EXCEPT ![s] = "none"]
                /\ in_flight' = Without(in_flight, s)
                /\ resolved' = [resolved EXCEPT ![s] = Append(@, "timeout")]
                /\ started' = [started EXCEPT ![s] = 0]
                /\ pc' = AfterPass(sweep')
    /\ UNCHANGED << args, m3ua, admitted, tasks, results, events, now, clock, created, failed >>

\* ---------------------------------------------------------- environment
\* the answer of a slow target arrives while the loop waits: the socket
\* becomes writable, with or without a pending error
Respond(s, w) ==
    /\ pc = "select"
    /\ s \in created
    /\ closes[s] = 0
    /\ wr[s] = "pending"
    /\ net[s] = "slow"
    /\ wr' = [wr EXCEPT ![s] = w]
    /\ UNCHANGED << args, m3ua, admitted, pc, tasks, in_flight, selector, results, events, sweep, now,
                    clock, created, closes, net, resolved, started, failed >>

\* the system clock is set back or forward (NTP step, settimeofday), at most
\* once in a scan, while the
\* loop is in select; the clock is read after select returns, so a step during
\* the wait is the same as one at its start
ClockStep(d) ==
    /\ pc = "select"
    /\ waited = 0
    /\ ~stepped
    /\ stepped' = TRUE
    /\ skew' = skew + d
    /\ UNCHANGED << args, m3ua, admitted, pc, tasks, in_flight, selector, results, events, sweep, now,
                    mono, waited, created, closes, wr, net, resolved, started,
                    failed >>

\* KeyboardInterrupt is raised while the loop is blocked in select or between
\* the return of select and the end of the ready loop: scan_sctp has no handler
\* and no finally clause, so the exception leaves it at once
Interrupt ==
    /\ pc \in {"select", "ready"}
    /\ pc' = "interrupted"
    /\ UNCHANGED << args, m3ua, admitted, tasks, in_flight, selector, results, events, sweep, now,
                    clock, created, closes, wr, net, resolved, started, failed >>

\* ------------------------------------------------------- specifications
LoopStep ==
    \/ Admit
    \/ AdmitStop
    \/ AdmitFull
    \/ SelectReady
    \/ SelectWait
    \/ SelectTimeout
    \/ \E s \in Socks : HandleReady(s)
    \/ SweepOne

Fault == \E stage \in {"socket", "connect", "register"} : AdmitRaise(stage)

Environment ==
    \/ \E s \in Socks, w \in {"connected", "refused"} : Respond(s, w)
    \/ \E d \in {0 - ClockJump, ClockJump} : ClockStep(d)

Next == LoopStep \/ Fault \/ Environment \/ Interrupt

Spec == Init /\ [][Next]_vars

\* the scenario of three targets: three hosts and one port, or one host and
\* three ports, with concurrency 2; how each target answers is chosen at its
\* admission, as in every scan
ScenarioInit ==
    /\ \/ ips \in {Ascending(3), Descending(3)} /\ ports = PortRange(1)
       \/ ips = Ascending(1) /\ ports = PortRange(3)
    /\ concurrency = 2
    /\ timeout \in 1..MaxTimeout
    /\ LoopStart
    /\ M3uaIdle

SpecScenario == ScenarioInit /\ [][Next]_vars

\* ============================================================ test_m3ua
\* lines 6-15: struct.pack("!BBBBI", version, reserved, msg_class, msg_type,
\* length): eight bytes, the length big-endian
Pack(version, reserved, msg_class, msg_type, length) ==
    << version, reserved, msg_class, msg_type,
       (length \div 16777216) % 256, (length \div 65536) % 256,
       (length \div 256) % 256, length % 256 >>

build_m3ua_aspup == Pack(1, 0, 3, 1, 8)

\* line 43: struct.unpack("!BBBBI", ...) wants exactly eight bytes and raises
\* struct.error otherwise
CanUnpack(bytes) == Len(bytes) = 8

\* line 43: response[:8]
FirstEight(bytes) == SubSeq(bytes, 1, IF Len(bytes) < 8 THEN Len(bytes) ELSE 8)

\* line 43: the fields unpacked from eight bytes
Unpack(bytes) ==
    [version |-> bytes[1], msg_class |-> bytes[3], msg_type |-> bytes[4],
     msg_len |-> ((bytes[5] * 256 + bytes[6]) * 256 + bytes[7]) * 256 + bytes[8]]

\* what the peer may send: the first n bytes of an M3UA message of class c
\* and type t with a zero body
Message(c, t, n) ==
    [i \in 1..n |-> IF i <= 8 THEN Pack(1, 0, c, t, 8)[i] ELSE 0]

Responses == {Message(c, t, n) : c \in {0, 3}, t \in {1, 4}, n \in 0..MaxRespLen}

\* the process runs connect.py only: scan_sctp is not called and its
\* variables rest at their first values
M3uaInit ==
    /\ ips = << >>
    /\ ports = << >>
    /\ concurrency = 1
    /\ timeout = 1
    /\ LoopStart
    /\ step = "input"
    /\ sock = "unbound"
    /\ sent = << >>
    /\ response = << >>
    /\ printed = << >>
    /\ escaped = "none"
    /\ sock_closes = 0

\* lines 20-21: the two input() calls; int() raises ValueError on a port that
\* is not a number, before the try
ReadInput(ok) ==
    /\ step = "input"
    /\ IF ok THEN step' = "create" /\ escaped' = escaped
             ELSE step' = "escaped" /\ escaped' = "ValueError"
    /\ UNCHANGED << scan, sock, sent, response, printed, sock_closes >>

\* line 25: sock = sctpsocket_tcp(socket.AF_INET); when it raises, `sock` is
\* not assigned
CreateSocket(ok) ==
    /\ step = "create"
    /\ IF ok THEN step' = "bind" /\ sock' = "open"
             ELSE step' = "except" /\ sock' = sock
    /\ UNCHANGED << scan, sent, response, printed, escaped, sock_closes >>

\* lines 26-27
Bind(ok) ==
    /\ step = "bind"
    /\ IF ok THEN step' = "connect" /\ printed' = Append(printed, "bound")
             ELSE step' = "except" /\ printed' = printed
    /\ UNCHANGED << scan, sock, sent, response, escaped, sock_closes >>

\* lines 30-31
Connect(ok) ==
    /\ step = "connect"
    /\ IF ok THEN step' = "send" /\ printed' = Append(printed, "connected")
             ELSE step' = "except" /\ printed' = printed
    /\ UNCHANGED << scan, sock, sent, response, escaped, sock_closes >>

\* lines 34-36
Send(ok) ==
    /\ step = "send"
    /\ IF ok THEN /\ step' = "recv"
                  /\ sent' = build_m3ua_aspup
                  /\ printed' = Append(printed, "sent")
             ELSE /\ step' = "except"
                  /\ UNCHANGED << sent, printed >>
    /\ UNCHANGED << scan, sock, response, escaped, sock_closes >>

\* lines 39-40: recv returns what the peer sent within 5 s
Receive(bytes) ==
    /\ step = "recv"
    /\ response' = bytes
    /\ step' = "parse"
    /\ UNCHANGED << scan, sock, sent, printed, escaped, sock_closes >>

\* lines 39-40: nothing arrives within 5 s, recv raises socket.timeout
ReceiveTimeout ==
    /\ step = "recv"
    /\ step' = "except"
    /\ UNCHANGED << scan, sock, sent, response, printed, escaped, sock_closes >>

\* lines 42-50
Parse ==
    /\ step = "parse"
    /\ IF response = << >>
       THEN /\ printed' = Append(printed, "no response")
            /\ step' = "finally"
       ELSE IF ~CanUnpack(FirstEight(response))
       THEN /\ step' = "except"
            /\ printed' = printed
       ELSE LET m == Unpack(FirstEight(response)) IN
            /\ printed' = printed \o
                 << "received",
                    IF m.msg_class = 3 /\ m.msg_type = 4 THEN "ack" ELSE "unexpected" >>
            /\ step' = "finally"
    /\ UNCHANGED << scan, sock, sent, response, escaped, sock_closes >>

\* lines 52-53
Except ==
    /\ step = "except"
    /\ printed' = Append(printed, "error")
    /\ step' = "finally"
    /\ UNCHANGED << scan, sock, sent, response, escaped, sock_closes >>

\* lines 54-56: sock.close(); with `sock` not assigned the name lookup raises
\* UnboundLocalError, which leaves test_m3ua
Finally ==
    /\ step = "finally"
    /\ IF sock = "unbound"
       THEN /\ step' = "escaped"
            /\ escaped' = "UnboundLocalError"
            /\ UNCHANGED << sock, printed, sock_closes >>
       ELSE /\ sock' = "closed"
            /\ sock_closes' = sock_closes + 1
            /\ printed' = Append(printed, "closed")
            /\ step' = "returned"
            /\ escaped' = escaped
    /\ UNCHANGED << scan, sent, response >>

M3uaNext ==
    \/ \E ok \in BOOLEAN : ReadInput(ok)
    \/ \E ok \in BOOLEAN : CreateSocket(ok)
    \/ \E ok \in BOOLEAN : Bind(ok)
    \/ \E ok \in BOOLEAN : Connect(ok)
    \/ \E ok \in BOOLEAN : Send(ok)
    \/ \E bytes \in Responses : Receive(bytes)
    \/ ReceiveTimeout
    \/ Parse
    \/ Except
    \/ Finally

SpecM3ua == M3uaInit /\ [][M3uaNext]_vars

\* ================================================================ claims
Kinds(S) == {k \in {"success", "failure", "timeout"} :
                \E s \in S : resolved[s] = << k >>}

Occurrences(t) == Cardinality({i \in 1..Len(results) : results[i] = t})

\* C1: with concurrency >= 1, in_flight never holds more than concurrency
\* attempts, at any point of the loop.
C1_InFlightBounded == concurrency >= 1 => InFlightCount <= concurrency

C1_Witness ==
    /\ pc = "select"
    /\ concurrency = 2
    /\ InFlightCount = concurrency
    /\ tasks < NumTasks
    /\ \E s \in Socks : resolved[s] # << >>

C3_Terminates ==
    (pc # "interrupted" /\ ~ENABLED Next) =>
        (pc = "done" /\ \A s \in created : Len(resolved[s]) = 1)

\* C4: with concurrency >= 1, scan_sctp has left its loop only with in_flight
\* empty and the producer exhausted, and the exit test after the admission
\* loop leaves the loop exactly when both hold.
C4_ExitOnlyWhenDrained ==
    /\ [](concurrency >= 1 /\ pc = "done" => NothingInFlight /\ tasks = NumTasks)
    /\ [][(concurrency >= 1 /\ pc = "admit" /\ pc' \in {"done", "select"}) =>
             (pc' = "done" <=> NothingInFlight /\ tasks = NumTasks)]_vars

C4_Witness ==
    /\ pc = "done"
    /\ concurrency >= 1
    /\ NumTasks >= 2
    /\ tasks = NumTasks
    /\ NothingInFlight

\* C5: results holds exactly the targets whose attempt was reported writable
\* with socket error 0, once per attempt; a target resolved with an error or by
\* timeout is not in it.
C5_ResultsExact ==
    /\ \A s \in Socks :
        Occurrences(AllTasks[s]) = IF resolved[s] = << "success" >> THEN 1 ELSE 0
    /\ \A i \in 1..Len(results) : \E s \in Socks : results[i] = AllTasks[s]

C5_Witness ==
    /\ pc = "done"
    /\ Len(results) = 2
    /\ Kinds(Socks) = {"success", "failure", "timeout"}

\* C6: an admission that fails (socket creation, connect or registration)
\* never ends the scan: the target is dropped, nothing is left open for it and
\* the loop goes on.
C6_AdmissionErrorHandled ==
    failed # 0 => (pc # "raised" /\ failed \notin created)

\* C7: when the scan is cancelled, no socket is left registered or open (no
\* step follows the cancellation, so no further target is pulled).
C7_CancelClosesAll ==
    pc = "interrupted" =>
        /\ selector = {}
        /\ \A s \in created : closes[s] = 1

\* C8: the resolution of a target that answers at once or never is decided by
\* its answer alone (accepting: success; refusing: failure; silent: timeout),
\* whatever the concurrency, the other attempts in flight and the order in
\* which ready sockets are reported; and with concurrency >= 1 the returned
\* scan has resolved every target of the list exactly once.  So the result
\* set and the number of failed or timed-out targets are the same for every
\* concurrency >= 1.
C8_SameForEveryConcurrency ==
    /\ [][\A s \in Socks :
            resolved'[s] # resolved[s] =>
                /\ net[s] = "ok" => resolved'[s] = << "success" >>
                /\ net[s] = "refused" => resolved'[s] = << "failure" >>
                /\ net[s] = "silent" => resolved'[s] = << "timeout" >>]_vars
    /\ [](pc = "done" /\ concurrency >= 1 =>
            /\ \A s \in Socks : Len(resolved[s]) = 1
            /\ {results[i] : i \in 1..Len(results)} =
                   {AllTasks[s] : s \in {x \in Socks : resolved[x] = << "success" >>}})

C8_Witness ==
    /\ pc = "done"
    /\ concurrency = 2
    /\ NumTasks = 4
    /\ Len(results) >= 2
    /\ results[1] = AllTasks[2]
    /\ results[2] = AllTasks[1]
    /\ "timeout" \in Kinds(Socks)

\* C9: an attempt whose target never answers is resolved as a timeout no
\* earlier than timeout and no later than timeout plus one polling granularity
\* after it was started, in elapsed time.
C9_TimeoutWindow ==
    [][\A s \in Socks :
        (net[s] = "silent" /\ resolved[s] = << >> /\ resolved'[s] = << "timeout" >>) =>
            /\ mono - started[s] >= timeout
            /\ mono - started[s] <= timeout + PollGranularity]_vars

\* C10: the timeout test of the sweep decides as a monotonic clock would: an
\* attempt is found expired exactly when timeout has elapsed since it was
\* started, whatever happened to the wall clock meanwhile.
C10_MonotonicExpiry ==
    pc = "sweep" =>
        \A i \in 1..Len(sweep) :
            Expired(sweep[i][2][3]) <=> (mono - started[sweep[i][1]] >= timeout)

\* C11: targets are admitted in the order of the lists supplied, hosts first
\* and ports within a host, and none is skipped: with P ports per host the
\* k-th target admitted is port ((k-1) mod P)+1 of host ((k-1) div P)+1,
\* whatever the concurrency and the order in which attempts resolve.
C11_AdmittedInOrder ==
    \A k \in 1..Len(admitted) :
        admitted[k] = << ips[((k - 1) \div Len(ports)) + 1],
                         ports[((k - 1) % Len(ports)) + 1] >>

C11_Witness ==
    /\ Len(ips) = 2
    /\ Len(ports) = 2
    /\ ips[1] > ips[2]
    /\ concurrency = 2
    /\ Len(admitted) = 4
    /\ Len(results) >= 2
    /\ results[1] = admitted[2]
    /\ results[2] = admitted[1]

Min(a, b) == IF a <= b THEN a ELSE b
Max(a, b) == IF a >= b THEN a ELSE b

\* the admission block has just ended without an error: the loop is at its
\* select, or has left by the break; in_flight and the producer are as the
\* block left them
Refilled == pc \in {"select", "done"}

\* the size of in_flight before the block plus the targets the producer had
\* not yet yielded then: every admission moves one target from the producer
\* into in_flight, so the sum is the same after the block
Demand == InFlightCount + (NumTasks - tasks)

\* C12 (as stated): after every refill without an admission error the size of
\* in_flight is min(concurrency, size before the refill + targets not yet
\* yielded), for every concurrency the caller may pass.
C12_RefillToMin == Refilled => InFlightCount = Min(concurrency, Demand)

\* C12 (amended): after every refill without an admission error the size of
\* in_flight is min(max(concurrency, 0), size before the refill + targets not
\* yet yielded), and no slot is free while a target has not been yielded.
C12_RefillToMinOfCap ==
    Refilled =>
        /\ InFlightCount = Min(Max(concurrency, 0), Demand)
        /\ ~(InFlightCount < concurrency /\ tasks < NumTasks)

C12_Witness ==
    /\ pc = "select"
    /\ concurrency = 2
    /\ NumTasks = 4
    /\ tasks = NumTasks
    /\ InFlightCount = 1
    /\ Demand < concurrency

\* C13: the sockets registered with the selector are the keys of in_flight,
\* at every step of the loop and so at every iteration boundary; every socket
\* the selector has reported and every socket the sweep visits is in
\* in_flight and registered when it is handled, so that neither pop nor
\* unregister fails (the only exception raised is an admission error); and a
\* closed socket is not registered.
C13_RegisteredIsInFlight ==
    /\ selector = DOMAIN in_flight
    /\ pc = "ready" => events # {} /\ events \subseteq DOMAIN in_flight
    /\ pc = "sweep" => \A i \in 1..Len(sweep) : sweep[i][1] \in DOMAIN in_flight
    /\ pc = "raised" => failed # 0
    /\ \A s \in Socks : closes[s] > 0 => s \notin selector

C13_Witness ==
    /\ pc = "ready"
    /\ Cardinality(events) = 1
    /\ InFlightCount = 1
    /\ \E s \in Socks : resolved[s] = << "timeout" >>
    /\ \E s \in Socks : resolved[s] = << "success" >>
    /\ tasks = NumTasks

\* C14: no target is admitted twice in a scan, no more targets are admitted
\* than the producer has yielded, and the target of an attempt that failed or
\* timed out is never in flight again.
C14_NeverRetries ==
    /\ \A i, j \in 1..Len(admitted) : i # j => admitted[i] # admitted[j]
    /\ Len(admitted) <= tasks
    /\ \A s \in Socks : closes[s] <= 1
    /\ LET inFlight == {<< in_flight[k][1], in_flight[k][2] >> : k \in DOMAIN in_flight}
           given == {s \in Socks : resolved[s] \in {<< "failure" >>, << "timeout" >>}}
           all == AllTasks
       IN  \A s \in given : all[s] \notin inFlight

C14_Witness ==
    /\ pc = "select"
    /\ concurrency = 1
    /\ NumTasks = 4
    /\ Len(admitted) = 4
    /\ resolved[1] = << "failure" >>
    /\ resolved[2] = << "timeout" >>
    /\ resolved[3] = << "failure" >>

\* the scenario's targets in the producer's order: the first accepts, the
\* second refuses, the third never answers
ScenarioAnswers == << "ok", "refused", "silent" >>
ScenarioKinds == << "success", "failure", "timeout" >>

\* the run is the scenario's so far: three targets, concurrency 2, every
\* attempt in flight is to a target that answers as the scenario says, every
\* resolved attempt ended as the scenario says, and the first two answered at
\* once, so that the third attempt started at elapsed time 0
InScenario ==
    /\ NumTasks = 3
    /\ concurrency = 2
    /\ \A s \in DOMAIN in_flight : net[s] = ScenarioAnswers[s]
    /\ \A s \in Socks : resolved[s] # << >> => resolved[s] = << ScenarioKinds[s] >>
    /\ 3 \in DOMAIN in_flight => started[3] = 0

\* C15: in the scenario the third attempt has been admitted when the loop
\* polls after the first resolution, it is in flight no longer than one
\* timeout plus one polling interval after the start of the scan (the scan
\* returns in the iteration that resolves it), and the scan returns exactly
\* the first target.
C15_Scenario ==
    InScenario =>
        /\ (pc = "select" /\ (resolved[1] # << >> \/ resolved[2] # << >>)) =>
              3 \in created
        /\ 3 \in DOMAIN in_flight => mono <= timeout + PollGranularity
        /\ pc = "done" => results = << AllTasks[1] >>

\* C16: with no host or no port scan_sctp never leaves the admission block
\* except by the break of its first iteration: no socket is created or
\* registered, select is never called, no time passes and the result is empty.
C16_EmptyScan ==
    NumTasks = 0 =>
        /\ pc \in {"admit", "done"}
        /\ created = {} /\ selector = {} /\ NothingInFlight
        /\ tasks = 0 /\ admitted = << >>
        /\ mono = 0 /\ results = << >>

C16_Witness ==
    /\ pc = "done"
    /\ Len(ips) = 2
    /\ Len(ports) = 0
    /\ concurrency = 2
    /\ results = << >>

\* C17: the timeout sweep starts only when every reported socket has been
\* handled, it visits only attempts that are still in in_flight and were not
\* reported writable, and an attempt that was reported writable is resolved
\* by its socket error, success if 0 and failure otherwise, also when its
\* timeout has passed.
C17_ReadyBeforeSweep ==
    /\ [](pc = "sweep" =>
            /\ events = {}
            /\ \A i \in 1..Len(sweep) :
                  /\ sweep[i][1] \in DOMAIN in_flight
                  /\ wr[sweep[i][1]] = "pending")
    /\ [][\A s \in Socks :
            (pc = "ready" /\ s \in events /\ resolved'[s] # resolved[s]) =>
                resolved'[s] = << IF wr[s] = "connected" THEN "success"
                                  ELSE "failure" >>]_vars

C17_Witness ==
    /\ pc = "ready"
    /\ InFlightCount = 2
    /\ \E s \in events, t \in DOMAIN in_flight :
          /\ t \notin events
          /\ Expired(in_flight[s][3]) /\ mono - started[s] >= timeout
          /\ Expired(in_flight[t][3]) /\ mono - started[t] >= timeout
          /\ wr[s] = "connected"

\* RUNNING, DRAINING, DONE as 1, 2, 3: DONE is the loop left by its break,
\* DRAINING the producer exhausted and the loop still running
Phase == IF pc = "done" THEN 3 ELSE IF tasks = NumTasks THEN 2 ELSE 1

\* C18: no step of the scan moves back from DONE to DRAINING or from DRAINING
\* to RUNNING; once the producer is exhausted it stays exhausted, no attempt
\* is created or admitted and in_flight does not grow; and no step changes
\* anything once the loop has been left by its break.
C18_ForwardOnly ==
    [][/\ Phase' >= Phase
       /\ tasks' >= tasks
       /\ tasks = NumTasks =>
             /\ tasks' = NumTasks
             /\ created' = created
             /\ admitted' = admitted
             /\ DOMAIN in_flight' \subseteq DOMAIN in_flight
       /\ pc # "done"]_vars

C18_Witness ==
    /\ pc = "done"
    /\ NumTasks = 4
    /\ concurrency = 2
    /\ tasks = NumTasks
    /\ Len(admitted) = 4
    /\ mono > timeout
    /\ resolved[4] = << "success" >>

\* C19: with concurrency <= 0 scan_sctp yields and admits no target, creates
\* no socket, never polls, and the only step it takes is the break of its
\* first iteration, with an empty result, although targets remain.
C19_NoSlotNoScan ==
    concurrency <= 0 =>
        /\ pc \in {"admit", "done"}
        /\ tasks = 0 /\ admitted = << >>
        /\ created = {} /\ selector = {} /\ NothingInFlight
        /\ results = << >>
        /\ mono = 0

C19_Witness ==
    /\ pc = "done"
    /\ concurrency <= 0
    /\ NumTasks = 4
    /\ tasks < NumTasks
    /\ results = << >>

\* C20: when test_m3ua has ended on any path that entered its try (failure
\* of the socket creation, of bind, connect or send, receive timeout, empty,
\* short or whole response), it has returned without an exception and the
\* socket has been closed exactly once; and the calls are made in the order
\* create, bind, connect, send, receive.
C20_ClosedOnceNoEscape ==
    /\ (step \in {"returned", "escaped"} /\ escaped # "ValueError") =>
          /\ step = "returned"
          /\ escaped = "none"
          /\ sock_closes = 1
          /\ sock = "closed"
    /\ sent # << >> => \E i, j \in 1..Len(printed) :
          i < j /\ printed[i] = "bound" /\ printed[j] = "connected"
    /\ step = "parse" => sent = build_m3ua_aspup

====
